---- MODULE Spec2Model ----
(***************************************************************************)
(* Model of src/main.cpp: a driver thread (main) spawns worker threads     *)
(* (simulateMarketData), each of which creates one BondMarketData and one  *)
(* InterestRateMarketData and appends both to a shared                     *)
(* DataProcessor<MarketData> under one std::mutex; the driver joins the    *)
(* workers and then calls processAll().                                    *)
(*                                                                         *)
(* Doubles are fixed-point integers: the double x is the integer x*Scale.  *)
(***************************************************************************)
EXTENDS Integers, Sequences, FiniteSets, TLC

\* main.cpp:86  for (int i = 0; i < 5; ++i)
NumWorkers == 5

\* Default precision of std::ostream, used by operator<< in process().
Digits == 6

\* Fixed-point unit: Digits decimal places.
Scale == 10 ^ Digits

\* Fault: the distribution is constructed as dis(0.0, 100.0).
MinValueZero == 0 * Scale

\* main.cpp:65  std::uniform_real_distribution<> dis(1.0, 100.0)
MinValue == 1 * Scale
MaxValue == 100 * Scale

\* A value with more significant digits than operator<< prints (12.345678).
MidValue == 12 * Scale + 345678

\* Sampled results of one call dis(gen).
Values == {MinValue, MidValue, MaxValue}

\* Sampled results of the two successive calls dis(gen), dis(gen) of one
\* worker (main.cpp:68-69): <<bond price, interest rate>>.
Draws == {<<MinValue, MaxValue>>, <<MidValue, MinValue>>}

\* Longest list the processAll harness (SpecProc) starts from.
MaxLen == 3

\* Number of processAll() calls the harness makes on one list.
NumCalls == 2

Workers == 1..NumWorkers

\* A moved-from or not yet assigned std::unique_ptr.
Null == [kind |-> "null"]

VARIABLES
    n,                 \* bound of the spawn loop of main
    dpc,               \* position of the driver (main)
    i,                 \* loop variable of the spawn loop
    threads,           \* std::vector<std::thread>: the worker each entry runs
    joined,            \* number of entries of threads already joined
    it,                \* processAll: number of elements already visited
    wpc,               \* position of each worker in simulateMarketData
    bondData,          \* worker local unique_ptr
    interestRateData,  \* worker local unique_ptr
    mtx,               \* owner of the mutex, 0 when free
    acquired,          \* history: the workers in the order they acquired mtx
    schedule,          \* the order in which the scheduler grants mtx (SpecPerm), else <<>>
    marketDataList,    \* DataProcessor::marketDataList
    throwing,          \* ids of the elements whose process() throws std::exception
    out,               \* lines written to std::cout
    err,               \* lines written to std::cerr
    calls,             \* one record per completed processAll() call
    exitCode           \* -1 while main runs, then its return value

vars == <<n, dpc, i, threads, joined, it, wpc, bondData, interestRateData,
          mtx, acquired, schedule, marketDataList, throwing, out, err, calls, exitCode>>

----------------------------------------------------------------------------
\* Market data objects

\* BondMarketData(double price); id names the object (its creator).
BondMarketData(price, id) == [kind |-> "Bond", value |-> price, id |-> id]

\* InterestRateMarketData(double rate)
InterestRateMarketData(rate, id) == [kind |-> "InterestRate", value |-> rate, id |-> id]

\* v rounded to a multiple of unit, halves up.
RoundTo(v, unit) == ((v + unit \div 2) \div unit) * unit

\* Number of digits of the integer part of v (v >= 1.0).
RECURSIVE IntDigits(_)
IntDigits(v) == IF v < 10 * Scale THEN 1 ELSE 1 + IntDigits(v \div 10)

\* operator<<(double) with the default precision: Digits significant digits
\* are kept, so Digits - IntDigits(v) decimals. The result is the number the
\* printed text denotes.
FormatDouble(v) == RoundTo(v, 10 ^ IntDigits(v))

\* The line BondMarketData::process / InterestRateMarketData::process prints.
process(data) ==
    IF data.kind = "Bond"
    THEN [label |-> "Processing Bond Market Data: Price = ", text |-> FormatDouble(data.value)]
    ELSE [label |-> "Processing Interest Rate Market Data: Rate = ", text |-> FormatDouble(data.value)]

\* The line the catch clause of processAll prints.
ErrorLine == [label |-> "Exception while processing market data: "]

----------------------------------------------------------------------------
\* DataProcessor

\* Fault: addData assigns to the last slot instead of growing the vector.
addDataOverwrite(list, data) ==
    IF list = <<>> THEN <<data>> ELSE [list EXCEPT ![Len(list)] = data]

\* Fault: addData inserts at the front of the vector.
addDataFront(list, data) == <<data>> \o list

\* DataProcessor::addData: marketDataList.push_back(std::move(data))
addData(list, data) == Append(list, data)

----------------------------------------------------------------------------
\* Initial states

InitWith(count) ==
    /\ n = count
    /\ dpc = "spawn"
    /\ i = 0
    /\ threads = <<>>
    /\ joined = 0
    /\ it = 0
    /\ wpc = [w \in Workers |-> "unstarted"]
    /\ bondData = [w \in Workers |-> Null]
    /\ interestRateData = [w \in Workers |-> Null]
    /\ mtx = 0
    /\ acquired = <<>>
    /\ schedule = <<>>
    /\ marketDataList = <<>>
    /\ throwing = {}
    /\ out = <<>>
    /\ err = <<>>
    /\ calls = <<>>
    /\ exitCode = -1

\* The program: main with its five workers.
Init == InitWith(NumWorkers)

\* main with the bound of the spawn loop anywhere from 0 to 5.
InitN == \E count \in 0..NumWorkers : InitWith(count)

\* Sampled environments: the ids of the elements on which process() raises
\* a std::exception (none; the first and the last element created).
ThrowSamples == {{}, {<<1, "Bond">>, <<NumWorkers, "InterestRate">>}}

\* main in an environment where process() may raise.
InitEnv ==
    /\ n = NumWorkers
    /\ dpc = "spawn"
    /\ i = 0
    /\ threads = <<>>
    /\ joined = 0
    /\ it = 0
    /\ wpc = [w \in Workers |-> "unstarted"]
    /\ bondData = [w \in Workers |-> Null]
    /\ interestRateData = [w \in Workers |-> Null]
    /\ mtx = 0
    /\ acquired = <<>>
    /\ schedule = <<>>
    /\ marketDataList = <<>>
    /\ throwing \in ThrowSamples
    /\ out = <<>>
    /\ err = <<>>
    /\ calls = <<>>
    /\ exitCode = -1

\* The orders in which the scheduler can grant the mutex to the workers.
Perms == {p \in [1..NumWorkers -> Workers] :
            \A j \in 1..NumWorkers, k \in 1..NumWorkers : p[j] = p[k] => j = k}

\* main under a scheduler that grants the mutex in a chosen order.
InitPerm ==
    /\ n = NumWorkers
    /\ dpc = "spawn"
    /\ i = 0
    /\ threads = <<>>
    /\ joined = 0
    /\ it = 0
    /\ wpc = [w \in Workers |-> "unstarted"]
    /\ bondData = [w \in Workers |-> Null]
    /\ interestRateData = [w \in Workers |-> Null]
    /\ mtx = 0
    /\ acquired = <<>>
    /\ schedule \in Perms
    /\ marketDataList = <<>>
    /\ throwing = {}
    /\ out = <<>>
    /\ err = <<>>
    /\ calls = <<>>
    /\ exitCode = -1

\* The objects a DataProcessor can hold at position j.
ElementsAt(j) ==
    {BondMarketData(v, <<j, "Bond">>) : v \in Values}
        \cup {InterestRateMarketData(v, <<j, "InterestRate">>) : v \in Values}

\* The lists of exactly len objects.
ListsOfLen(len) == {l \in [1..len -> UNION {ElementsAt(j) : j \in 1..len}] :
                      \A j \in 1..len : l[j] \in ElementsAt(j)}

\* A DataProcessor holding up to MaxLen objects, some of which raise in
\* process(), on which processAll() is about to be called.
InitProc ==
    /\ n = 0
    /\ dpc = "processAll"
    /\ i = 0
    /\ threads = <<>>
    /\ joined = 0
    /\ it = 0
    /\ wpc = [w \in Workers |-> "unstarted"]
    /\ bondData = [w \in Workers |-> Null]
    /\ interestRateData = [w \in Workers |-> Null]
    /\ mtx = 0
    /\ acquired = <<>>
    /\ schedule = <<>>
    /\ \E len \in 0..MaxLen : marketDataList \in ListsOfLen(len)
    /\ throwing \in SUBSET {marketDataList[j].id : j \in 1..Len(marketDataList)}
    /\ out = <<>>
    /\ err = <<>>
    /\ calls = <<>>
    /\ exitCode = -1

----------------------------------------------------------------------------
\* The driver: main

\* Fault: each thread is joined right after it is created, before the next.
SpawnSerial ==
    /\ dpc = "spawn"
    /\ i < n
    /\ IF i = 0 THEN TRUE ELSE wpc[i] = "done"
    /\ threads' = Append(threads, i + 1)
    /\ wpc' = [wpc EXCEPT ![i + 1] = "start"]
    /\ i' = i + 1
    /\ UNCHANGED <<n, dpc, joined, it, bondData, interestRateData, mtx,
                   marketDataList, throwing, out, err, calls, exitCode,
                   acquired, schedule>>

\* Fault: the spawn loop tests its bound after the body (do ... while).
SpawnDoWhile ==
    /\ dpc = "spawn"
    /\ (i < n \/ i = 0)
    /\ threads' = Append(threads, i + 1)
    /\ wpc' = [wpc EXCEPT ![i + 1] = "start"]
    /\ i' = i + 1
    /\ UNCHANGED <<n, dpc, joined, it, bondData, interestRateData, mtx,
                   marketDataList, throwing, out, err, calls, exitCode,
                   acquired, schedule>>

\* threads.emplace_back(simulateMarketData, ...); ++i
Spawn ==
    /\ dpc = "spawn"
    /\ i < n
    /\ threads' = Append(threads, i + 1)
    /\ wpc' = [wpc EXCEPT ![i + 1] = "start"]
    /\ i' = i + 1
    /\ UNCHANGED <<n, dpc, joined, it, bondData, interestRateData, mtx,
                   marketDataList, throwing, out, err, calls, exitCode,
                   acquired, schedule>>

\* the spawn loop ends
SpawnDone ==
    /\ dpc = "spawn"
    /\ ~(i < n)
    /\ dpc' = "join"
    /\ UNCHANGED <<n, i, threads, joined, it, wpc, bondData, interestRateData,
                   mtx, marketDataList, throwing, out, err, calls, exitCode,
                   acquired, schedule>>

\* Fault: the thread is detached instead of joined, main does not wait.
JoinNoWait ==
    /\ dpc = "join"
    /\ joined < Len(threads)
    /\ joined' = joined + 1
    /\ UNCHANGED <<n, dpc, i, threads, it, wpc, bondData, interestRateData,
                   mtx, marketDataList, throwing, out, err, calls, exitCode,
                   acquired, schedule>>

\* t.join() returns once that thread has finished
Join ==
    /\ dpc = "join"
    /\ joined < Len(threads)
    /\ wpc[threads[joined + 1]] = "done"
    /\ joined' = joined + 1
    /\ UNCHANGED <<n, dpc, i, threads, it, wpc, bondData, interestRateData,
                   mtx, marketDataList, throwing, out, err, calls, exitCode,
                   acquired, schedule>>

\* the join loop ends; main calls processor.processAll()
JoinDone ==
    /\ dpc = "join"
    /\ joined = Len(threads)
    /\ dpc' = "processAll"
    /\ it' = 0
    /\ UNCHANGED <<n, i, threads, joined, wpc, bondData, interestRateData,
                   mtx, marketDataList, throwing, out, err, calls, exitCode,
                   acquired, schedule>>

\* Fault: the try block encloses the whole loop, an error ends the loop.
ProcessStepAbort ==
    /\ dpc = "processAll"
    /\ it < Len(marketDataList)
    /\ IF marketDataList[it + 1].id \in throwing
       THEN /\ err' = Append(err, ErrorLine)
            /\ out' = out
            /\ it' = Len(marketDataList)
       ELSE /\ out' = Append(out, process(marketDataList[it + 1]))
            /\ err' = err
            /\ it' = it + 1
    /\ UNCHANGED <<n, dpc, i, threads, joined, wpc, bondData, interestRateData,
                   mtx, marketDataList, throwing, calls, exitCode,
                   acquired, schedule>>

\* Fault: the iterator is advanced twice per iteration.
ProcessStepSkip ==
    /\ dpc = "processAll"
    /\ it < Len(marketDataList)
    /\ IF marketDataList[it + 1].id \in throwing
       THEN /\ err' = Append(err, ErrorLine)
            /\ out' = out
       ELSE /\ out' = Append(out, process(marketDataList[it + 1]))
            /\ err' = err
    /\ it' = IF it + 2 <= Len(marketDataList) THEN it + 2 ELSE Len(marketDataList)
    /\ UNCHANGED <<n, dpc, i, threads, joined, wpc, bondData, interestRateData,
                   mtx, marketDataList, throwing, calls, exitCode,
                   acquired, schedule>>

\* Fault: the loop of processAll runs from the last element to the first.
ProcessStepReverse ==
    /\ dpc = "processAll"
    /\ it < Len(marketDataList)
    /\ IF marketDataList[Len(marketDataList) - it].id \in throwing
       THEN /\ err' = Append(err, ErrorLine)
            /\ out' = out
       ELSE /\ out' = Append(out, process(marketDataList[Len(marketDataList) - it]))
            /\ err' = err
    /\ it' = it + 1
    /\ UNCHANGED <<n, dpc, i, threads, joined, wpc, bondData, interestRateData,
                   mtx, marketDataList, throwing, calls, exitCode,
                   acquired, schedule>>

\* one iteration of the loop of processAll: try { data->process(); } catch ...
ProcessStep ==
    /\ dpc = "processAll"
    /\ it < Len(marketDataList)
    /\ IF marketDataList[it + 1].id \in throwing
       THEN /\ err' = Append(err, ErrorLine)
            /\ out' = out
       ELSE /\ out' = Append(out, process(marketDataList[it + 1]))
            /\ err' = err
    /\ it' = it + 1
    /\ UNCHANGED <<n, dpc, i, threads, joined, wpc, bondData, interestRateData,
                   mtx, marketDataList, throwing, calls, exitCode,
                   acquired, schedule>>

\* Fault: processAll clears the vector once it has visited it.
ProcessAllReturnClear ==
    /\ dpc = "processAll"
    /\ it = Len(marketDataList)
    /\ dpc' = "return"
    /\ calls' = Append(calls, [out |-> out, err |-> err, list |-> marketDataList])
    /\ marketDataList' = <<>>
    /\ UNCHANGED <<n, i, threads, joined, it, wpc, bondData, interestRateData,
                   mtx, throwing, out, err, exitCode, acquired, schedule>>

\* the loop of processAll ends and processAll returns
ProcessAllReturn ==
    /\ dpc = "processAll"
    /\ it = Len(marketDataList)
    /\ dpc' = "return"
    /\ calls' = Append(calls, [out |-> out, err |-> err, list |-> marketDataList])
    /\ UNCHANGED <<n, i, threads, joined, it, wpc, bondData, interestRateData,
                   mtx, marketDataList, throwing, out, err, exitCode,
                   acquired, schedule>>

\* return 0
Return ==
    /\ dpc = "return"
    /\ dpc' = "done"
    /\ exitCode' = 0
    /\ UNCHANGED <<n, i, threads, joined, it, wpc, bondData, interestRateData,
                   mtx, marketDataList, throwing, out, err, calls,
                   acquired, schedule>>

\* processAll() is called again on the same DataProcessor
CallAgain ==
    /\ dpc = "return"
    /\ Len(calls) < NumCalls
    /\ dpc' = "processAll"
    /\ it' = 0
    /\ UNCHANGED <<n, i, threads, joined, wpc, bondData, interestRateData,
                   mtx, marketDataList, throwing, out, err, calls, exitCode,
                   acquired, schedule>>

DriverNext == Spawn \/ SpawnDone \/ Join \/ JoinDone \/ ProcessStep \/ ProcessAllReturn \/ Return

----------------------------------------------------------------------------
\* The workers: simulateMarketData

\* Fault: the lock_guard is declared at the top of the function, so the
\* objects are created with the mutex held.
GenerateUnderLock(w) ==
    /\ wpc[w] = "start"
    /\ mtx = 0
    /\ mtx' = w
    /\ acquired' = Append(acquired, w)
    /\ \E d \in Draws :
          /\ bondData' = [bondData EXCEPT ![w] = BondMarketData(d[1], <<w, "Bond">>)]
          /\ interestRateData' = [interestRateData EXCEPT
                                    ![w] = InterestRateMarketData(d[2], <<w, "InterestRate">>)]
    /\ wpc' = [wpc EXCEPT ![w] = "addBond"]
    /\ UNCHANGED <<n, dpc, i, threads, joined, it, marketDataList,
                   throwing, out, err, calls, exitCode, schedule>>

\* Fault: both objects are created with make_unique<BondMarketData>.
GenerateBothBond(w) ==
    /\ wpc[w] = "start"
    /\ \E d \in Draws :
          /\ bondData' = [bondData EXCEPT ![w] = BondMarketData(d[1], <<w, "Bond">>)]
          /\ interestRateData' = [interestRateData EXCEPT
                                    ![w] = BondMarketData(d[2], <<w, "InterestRate">>)]
    /\ wpc' = [wpc EXCEPT ![w] = "lock"]
    /\ UNCHANGED <<n, dpc, i, threads, joined, it, mtx, marketDataList,
                   throwing, out, err, calls, exitCode, acquired, schedule>>

\* Steps 1 and 2: the random source and the two objects
Generate(w) ==
    /\ wpc[w] = "start"
    /\ \E d \in Draws :
          /\ bondData' = [bondData EXCEPT ![w] = BondMarketData(d[1], <<w, "Bond">>)]
          /\ interestRateData' = [interestRateData EXCEPT
                                    ![w] = InterestRateMarketData(d[2], <<w, "InterestRate">>)]
    /\ wpc' = [wpc EXCEPT ![w] = "lock"]
    /\ UNCHANGED <<n, dpc, i, threads, joined, it, mtx, marketDataList,
                   throwing, out, err, calls, exitCode, acquired, schedule>>

\* Fault: the worker does not wait for the mutex to be free.
LockNoWait(w) ==
    /\ wpc[w] = "lock"
    /\ mtx' = w
    /\ acquired' = Append(acquired, w)
    /\ wpc' = [wpc EXCEPT ![w] = "addBond"]
    /\ UNCHANGED <<n, dpc, i, threads, joined, it, bondData, interestRateData,
                   marketDataList, throwing, out, err, calls, exitCode,
                   schedule>>

\* std::lock_guard<std::mutex> lock(mtx)
Lock(w) ==
    /\ wpc[w] = "lock"
    /\ mtx = 0
    /\ mtx' = w
    /\ acquired' = Append(acquired, w)
    /\ wpc' = [wpc EXCEPT ![w] = "addBond"]
    /\ UNCHANGED <<n, dpc, i, threads, joined, it, bondData, interestRateData,
                   marketDataList, throwing, out, err, calls, exitCode,
                   schedule>>

\* Lock(w) when the scheduler lets w be the next worker to get the mutex
LockInTurn(w) ==
    /\ Len(acquired) < Len(schedule)
    /\ schedule[Len(acquired) + 1] = w
    /\ Lock(w)

\* Fault: the lock is scoped to the first addData only and released after it.
AddBondThenRelease(w) ==
    /\ wpc[w] = "addBond"
    /\ marketDataList' = addData(marketDataList, bondData[w])
    /\ bondData' = [bondData EXCEPT ![w] = Null]
    /\ mtx' = 0
    /\ wpc' = [wpc EXCEPT ![w] = "addRate"]
    /\ UNCHANGED <<n, dpc, i, threads, joined, it, interestRateData,
                   throwing, out, err, calls, exitCode, acquired, schedule>>

\* processor.addData(std::move(bondData))
AddBond(w) ==
    /\ wpc[w] = "addBond"
    /\ marketDataList' = addData(marketDataList, bondData[w])
    /\ bondData' = [bondData EXCEPT ![w] = Null]
    /\ wpc' = [wpc EXCEPT ![w] = "addRate"]
    /\ UNCHANGED <<n, dpc, i, threads, joined, it, interestRateData, mtx,
                   throwing, out, err, calls, exitCode, acquired, schedule>>

\* Fault: the pointer is shared and copied into the list, the worker keeps it.
AddRateKeepsPointer(w) ==
    /\ wpc[w] = "addRate"
    /\ marketDataList' = addData(marketDataList, interestRateData[w])
    /\ wpc' = [wpc EXCEPT ![w] = "unlock"]
    /\ UNCHANGED <<n, dpc, i, threads, joined, it, bondData, interestRateData, mtx,
                   throwing, out, err, calls, exitCode, acquired, schedule>>

\* Fault: the second addData acts on a copy of the processor and is lost.
AddRateLost(w) ==
    /\ wpc[w] = "addRate"
    /\ interestRateData' = [interestRateData EXCEPT ![w] = Null]
    /\ wpc' = [wpc EXCEPT ![w] = "unlock"]
    /\ UNCHANGED <<n, dpc, i, threads, joined, it, bondData, mtx, marketDataList,
                   throwing, out, err, calls, exitCode, acquired, schedule>>

\* processor.addData(std::move(interestRateData))
AddRate(w) ==
    /\ wpc[w] = "addRate"
    /\ marketDataList' = addData(marketDataList, interestRateData[w])
    /\ interestRateData' = [interestRateData EXCEPT ![w] = Null]
    /\ wpc' = [wpc EXCEPT ![w] = "unlock"]
    /\ UNCHANGED <<n, dpc, i, threads, joined, it, bondData, mtx,
                   throwing, out, err, calls, exitCode, acquired, schedule>>

\* Fault: mtx.lock() without an unlock, the worker returns holding the mutex.
UnlockMissing(w) ==
    /\ wpc[w] = "unlock"
    /\ wpc' = [wpc EXCEPT ![w] = "done"]
    /\ UNCHANGED <<n, dpc, i, threads, joined, it, bondData, interestRateData,
                   mtx, marketDataList, throwing, out, err, calls, exitCode,
                   acquired, schedule>>

\* the lock_guard goes out of scope; simulateMarketData returns
Unlock(w) ==
    /\ wpc[w] = "unlock"
    /\ mtx' = 0
    /\ wpc' = [wpc EXCEPT ![w] = "done"]
    /\ UNCHANGED <<n, dpc, i, threads, joined, it, bondData, interestRateData,
                   marketDataList, throwing, out, err, calls, exitCode,
                   acquired, schedule>>

WorkerNext(w) == Generate(w) \/ Lock(w) \/ AddBond(w) \/ AddRate(w) \/ Unlock(w)

----------------------------------------------------------------------------
\* Specifications

Next ==
    \/ Spawn
    \/ SpawnDone
    \/ Join
    \/ JoinDone
    \/ ProcessStep
    \/ ProcessAllReturn
    \/ Return
    \/ \E w \in Workers : Generate(w)
    \/ \E w \in Workers : Lock(w)
    \/ \E w \in Workers : AddBond(w)
    \/ \E w \in Workers : AddRate(w)
    \/ \E w \in Workers : Unlock(w)

\* Every thread that can take a step eventually takes one.
Fairness == WF_vars(DriverNext) /\ \A w \in Workers : WF_vars(WorkerNext(w))

Spec == Init /\ [][Next]_vars

FairSpec == Init /\ [][Next]_vars /\ Fairness

SpecN == InitN /\ [][Next]_vars

FairSpecN == InitN /\ [][Next]_vars /\ Fairness

SpecEnv == InitEnv /\ [][Next]_vars

FairSpecEnv == InitEnv /\ [][Next]_vars /\ Fairness

\* main under a scheduler that grants the mutex in the order schedule: the
\* steps of Next, with the contended Lock resolved by the scheduler.
NextPerm ==
    \/ Spawn
    \/ SpawnDone
    \/ Join
    \/ JoinDone
    \/ ProcessStep
    \/ ProcessAllReturn
    \/ Return
    \/ \E w \in Workers : Generate(w)
    \/ \E w \in Workers : LockInTurn(w)
    \/ \E w \in Workers : AddBond(w)
    \/ \E w \in Workers : AddRate(w)
    \/ \E w \in Workers : Unlock(w)

WorkerNextPerm(w) ==
    Generate(w) \/ LockInTurn(w) \/ AddBond(w) \/ AddRate(w) \/ Unlock(w)

FairnessPerm == WF_vars(DriverNext) /\ \A w \in Workers : WF_vars(WorkerNextPerm(w))

SpecPerm == InitPerm /\ [][NextPerm]_vars

FairSpecPerm == InitPerm /\ [][NextPerm]_vars /\ FairnessPerm

\* processAll() called NumCalls times on a given DataProcessor.
NextProc ==
    \/ ProcessStep
    \/ ProcessAllReturn
    \/ CallAgain

SpecProc == InitProc /\ [][NextProc]_vars

----------------------------------------------------------------------------
\* Properties

\* The driver has passed the join barrier.
AfterJoin == dpc \in {"processAll", "return", "done"}

\* Worker w is between its lock acquisition and its lock release.
InCritical(w) == wpc[w] \in {"addBond", "addRate", "unlock"}

\* The positions of the list that hold an object created by worker w.
PositionsOf(w) == {j \in 1..Len(marketDataList) : marketDataList[j].id[1] = w}

\* The lines written to std::cout during the k-th completed processAll() call.
CallOut(k) ==
    SubSeq(calls[k].out, (IF k = 1 THEN 0 ELSE Len(calls[k - 1].out)) + 1, Len(calls[k].out))

\* The lines written to std::cerr during the k-th completed processAll() call.
CallErr(k) ==
    SubSeq(calls[k].err, (IF k = 1 THEN 0 ELSE Len(calls[k - 1].err)) + 1, Len(calls[k].err))

NotThrowing(data) == data.id \notin throwing

\* What skip-and-continue prints for a list: one line per element whose
\* process() does not raise, in list order.
ExpectedOut(list) ==
    LET ok == SelectSeq(list, NotThrowing)
    IN  [j \in 1..Len(ok) |-> process(ok[j])]

\* C1: once the driver has passed the join barrier, the collector holds
\* exactly two elements per spawned worker, that is 10 for the five workers.
C1_SizeAfterJoin ==
    AfterJoin =>
        /\ Len(threads) = NumWorkers
        /\ Len(marketDataList) = 2 * Len(threads)
        /\ Len(marketDataList) = 10

C1_Witness == dpc = "done" /\ Len(marketDataList) = 10

\* C2: the two elements inserted by a worker are adjacent in the list, in
\* every state after its second insertion: the worker's elements occupy
\* exactly two consecutive positions, and while it has inserted only its
\* first element that element is the last one of the list.
C2_PairAdjacent ==
    \A w \in Workers :
        /\ wpc[w] \in {"unlock", "done"} =>
              \E j \in 1..(Len(marketDataList) - 1) : PositionsOf(w) = {j, j + 1}
        /\ wpc[w] = "addRate" => PositionsOf(w) = {Len(marketDataList)}
        /\ wpc[w] \in {"unstarted", "start", "lock", "addBond"} => PositionsOf(w) = {}

C2_Witness ==
    \E w \in Workers, v \in Workers :
        /\ w # v
        /\ wpc[w] = "done"
        /\ wpc[v] = "done"
        /\ \E j \in 1..(Len(marketDataList) - 3) :
              PositionsOf(v) = {j, j + 1} /\ PositionsOf(w) = {j + 2, j + 3}
        /\ v > w

\* C3: every worker between lock acquisition and release owns the mutex, so
\* at most one worker is there at a time, and every step that changes the
\* list is a step of the worker that owns the mutex.
C3_MutualExclusion ==
    /\ [](\A w \in Workers : InCritical(w) => mtx = w)
    /\ [](\A w \in Workers, v \in Workers : InCritical(w) /\ InCritical(v) => w = v)
    /\ [][marketDataList' # marketDataList =>
            \E w \in Workers : mtx = w /\ InCritical(w) /\ wpc'[w] # wpc[w]]_vars

C3_Witness ==
    \E w \in Workers, v \in Workers :
        w # v /\ wpc[w] = "addRate" /\ mtx = w /\ wpc[v] = "lock"

\* C4: processAll() starts only from the join barrier, only once, and while
\* it runs every spawned worker has finished, all five were spawned and none
\* is inserting.
C4_ProcessAfterJoin ==
    /\ [](AfterJoin => /\ Len(threads) = n
                       /\ joined = Len(threads)
                       /\ \A w \in 1..n : wpc[w] = "done"
                       /\ \A w \in Workers : wpc[w] \in {"done", "unstarted"}
                       /\ mtx = 0)
    /\ [](Len(calls) <= 1 /\ (dpc = "done" => Len(calls) = 1))
    /\ [][dpc' = "processAll" /\ dpc # "processAll" => dpc = "join" /\ calls = <<>>]_vars

C4_Witness == dpc = "processAll" /\ it > 0 /\ it < Len(marketDataList)

\* C5: every step leaves the list unchanged or appends one element to it,
\* and from the join barrier on the list never changes.
C5_AppendOnly ==
    /\ [][\/ marketDataList' = marketDataList
          \/ /\ Len(marketDataList') = Len(marketDataList) + 1
             /\ SubSeq(marketDataList', 1, Len(marketDataList)) = marketDataList]_vars
    /\ [][AfterJoin => marketDataList' = marketDataList]_vars

C5_Witness == dpc = "return" /\ Len(marketDataList) = 2 * NumWorkers /\ Len(out) = 2 * NumWorkers

\* C6: an error raised by process() on one element is caught and logged and
\* the loop goes on: during a call every visited element has produced one
\* line on std::cout or one on std::cerr, a completed call has printed the
\* line of every element that does not raise, in order, and one error line
\* per element that raises, and processAll() can always take its next step.
C6_SkipAndContinue ==
    /\ dpc = "processAll" =>
          /\ Len(out) + Len(err) = Len(calls) * Len(marketDataList) + it
          /\ it <= Len(marketDataList)
          /\ ENABLED (ProcessStep \/ ProcessAllReturn)
    /\ \A k \in 1..Len(calls) :
          /\ CallOut(k) = ExpectedOut(calls[k].list)
          /\ Len(CallErr(k)) = Cardinality(throwing)
          /\ \A j \in 1..Len(CallErr(k)) : CallErr(k)[j] = ErrorLine

C6_Witness ==
    /\ Len(calls) >= 1
    /\ Len(marketDataList) = 3
    /\ throwing = {marketDataList[1].id}
    /\ CallOut(1) = <<process(marketDataList[2]), process(marketDataList[3])>>
    /\ CallErr(1) = <<ErrorLine>>

\* C7: under fair scheduling every execution reaches Done with exit code 0
\* and all workers finished; a state where nothing can happen is Done, and
\* the exit code is 0 whenever main has returned, errors or not.
C7_Termination ==
    /\ <>(dpc = "done" /\ exitCode = 0 /\ \A w \in Workers : wpc[w] = "done")
    /\ [](dpc # "done" => ENABLED Next)
    /\ [](dpc = "done" => exitCode = 0)
    /\ [](exitCode \in {-1, 0})

C7_Witness == dpc = "done" /\ exitCode = 0 /\ err # <<>> /\ mtx = 0

\* C8: a second processAll() call on the same list prints the same lines as
\* the first one, and no step of processAll() changes the list.
C8_Repeatable ==
    /\ [](\A k \in 1..Len(calls) :
            /\ CallOut(k) = CallOut(1)
            /\ CallErr(k) = CallErr(1)
            /\ calls[k].list = calls[1].list
            /\ marketDataList = calls[k].list)
    /\ [][marketDataList' = marketDataList]_vars

C8_Witness ==
    /\ Len(calls) = 2
    /\ Len(CallOut(2)) >= 2
    /\ CallOut(2)[1] # CallOut(2)[2]

\* C9: with five workers and no processing error the program prints exactly
\* 10 lines, the line of each element of the list in order, none of them
\* before the join barrier, and exits with code 0.
C9_TenLines ==
    /\ ~AfterJoin => out = <<>> /\ err = <<>>
    /\ err = <<>> => Len(out) = it
    /\ (dpc = "done" /\ err = <<>>) =>
          /\ Len(out) = 10
          /\ Len(out) = Len(marketDataList)
          /\ \A j \in 1..Len(out) : out[j] = process(marketDataList[j])
          /\ exitCode = 0

C9_Witness == dpc = "done" /\ err = <<>> /\ Len(out) = 10 /\ exitCode = 0 /\ n = 5

\* C10: with worker count 0 no worker ever starts, the join barrier is open
\* as soon as it is reached, the list stays empty, processAll() prints
\* nothing, and the program reaches Done with exit code 0.
C10_NoWorkers ==
    /\ [](n = 0 => /\ threads = <<>>
                   /\ \A w \in Workers : wpc[w] = "unstarted"
                   /\ marketDataList = <<>>
                   /\ out = <<>>
                   /\ err = <<>>
                   /\ (dpc = "join" => ENABLED JoinDone)
                   /\ (dpc = "done" => exitCode = 0))
    /\ (n = 0) ~> (dpc = "done" /\ exitCode = 0 /\ out = <<>> /\ Len(calls) = 1)

C10_Witness == n = 0 /\ dpc = "done" /\ Len(calls) = 1 /\ marketDataList = <<>>

\* The values of the objects that exist: held by a worker or by the list.
StoredValues ==
    {bondData[w].value : w \in {v \in Workers : bondData[v] # Null}}
        \cup {interestRateData[w].value : w \in {v \in Workers : interestRateData[v] # Null}}
        \cup {marketDataList[j].value : j \in 1..Len(marketDataList)}

\* C11: every value generated by a worker and stored in a Bond or
\* InterestRate element lies between 1.0 and 100.0, both included.
C11_ValueRange == \A v \in StoredValues : 1 * Scale <= v /\ v <= 100 * Scale

C11_Witness ==
    /\ dpc = "done"
    /\ \E j \in 1..Len(marketDataList) : marketDataList[j].value = 1 * Scale
    /\ \E j \in 1..Len(marketDataList) : marketDataList[j].value = 100 * Scale
    /\ \E j \in 1..Len(marketDataList) :
          1 * Scale < marketDataList[j].value /\ marketDataList[j].value < 100 * Scale

\* The position of worker w in the acquisition history.
AcquiredAt(w) == CHOOSE k \in 1..Len(acquired) : acquired[k] = w

\* C12: the order of the list is the order of lock acquisition: the elements
\* at positions 2k-1 and 2k belong to the k-th worker that acquired the
\* mutex, and once all workers are done a's pair precedes b's pair exactly
\* when a acquired the mutex before b.
C12_LockOrder ==
    /\ \A j \in 1..Len(marketDataList) :
          /\ (j + 1) \div 2 <= Len(acquired)
          /\ marketDataList[j].id[1] = acquired[(j + 1) \div 2]
    /\ AfterJoin =>
          /\ Len(acquired) = n
          /\ \A a \in 1..n, b \in 1..n :
                (\A j \in PositionsOf(a), k \in PositionsOf(b) : j < k)
                    <=> (a # b /\ AcquiredAt(a) < AcquiredAt(b))

C12_Witness ==
    /\ dpc = "done"
    /\ acquired = <<3, 5, 1, 4, 2>>
    /\ \A k \in 1..5 : PositionsOf(acquired[k]) = {2 * k - 1, 2 * k}

\* The number of times worker w has acquired the mutex.
Acquisitions(w) == Cardinality({k \in 1..Len(acquired) : acquired[k] = w})

\* C13: a worker acquires the mutex exactly once; it does not own the mutex
\* before its lock_guard is constructed, in particular not in the step that
\* creates its two objects, nor after it has finished; it inserts nothing
\* before acquiring, one element and then the second while it owns the
\* mutex, and its next step after the second insertion releases the mutex
\* and inserts nothing.
C13_LockScope ==
    /\ [](\A w \in Workers :
            /\ Acquisitions(w) = (IF wpc[w] \in {"addBond", "addRate", "unlock", "done"} THEN 1 ELSE 0)
            /\ wpc[w] \in {"unstarted", "start", "lock", "done"} => mtx # w
            /\ wpc[w] \in {"addBond", "addRate", "unlock"} => mtx = w
            /\ Cardinality(PositionsOf(w)) =
                  (CASE wpc[w] \in {"unstarted", "start", "lock", "addBond"} -> 0
                     [] wpc[w] = "addRate" -> 1
                     [] OTHER -> 2))
    /\ [][\A w \in Workers :
            (bondData'[w] # bondData[w] /\ bondData[w] = Null) => (mtx # w /\ mtx' # w)]_vars
    /\ [][\A w \in Workers :
            (wpc[w] = "unlock" /\ wpc'[w] # "unlock") =>
                (mtx' = 0 /\ wpc'[w] = "done" /\ marketDataList' = marketDataList)]_vars
    /\ [][\A w \in Workers :
            (wpc[w] = "addRate" /\ wpc'[w] # "addRate") => wpc'[w] = "unlock"]_vars

C13_Witness ==
    \E w \in Workers, v \in Workers, u \in Workers :
        /\ wpc[w] = "done" /\ Acquisitions(w) = 1
        /\ wpc[v] = "lock" /\ bondData[v] # Null
        /\ wpc[u] = "unlock" /\ mtx = u

\* The kind of object a printed line names.
LineKind(line) ==
    IF line.label = "Processing Bond Market Data: Price = " THEN "Bond"
    ELSE IF line.label = "Processing Interest Rate Market Data: Rate = " THEN "InterestRate"
    ELSE "none"

\* |a - b|
AbsDiff(a, b) == IF a >= b THEN a - b ELSE b - a

\* C14 as stated: once processAll() has returned, the printed lines name the
\* kinds and the values of the elements of the list, in list order.
C14_Original ==
    dpc \in {"return", "done"} =>
        /\ Len(out) = Len(marketDataList)
        /\ \A j \in 1..Len(out) :
              /\ LineKind(out[j]) = marketDataList[j].kind
              /\ out[j].text = marketDataList[j].value

\* C14 amended: processAll() visits the elements in list order, each exactly
\* once: after it iterations the it first elements have one line each, in
\* order; the line names the kind of its element and the value of its
\* element rounded to six significant digits, which is within half a unit
\* of the sixth digit of the stored value.
C14_InOrderRounded ==
    /\ AfterJoin =>
          /\ Len(out) = it
          /\ \A j \in 1..Len(out) :
                /\ LineKind(out[j]) = marketDataList[j].kind
                /\ out[j].text % (10 ^ IntDigits(marketDataList[j].value)) = 0
                /\ 2 * AbsDiff(out[j].text, marketDataList[j].value)
                      <= 10 ^ IntDigits(marketDataList[j].value)
    /\ dpc \in {"return", "done"} => Len(out) = Len(marketDataList)

C14_Witness ==
    /\ dpc = "done"
    /\ Len(out) = 2 * NumWorkers
    /\ \E j \in 1..Len(out) : out[j].text # marketDataList[j].value
    /\ \E j \in 1..Len(out) : out[j].text = marketDataList[j].value

\* The number of elements of the list of the given kind.
CountKind(kind) ==
    Cardinality({j \in 1..Len(marketDataList) : marketDataList[j].kind = kind})

\* C15: the list alternates Bond, InterestRate starting with a Bond, each
\* InterestRate follows the Bond of the same worker, a worker that has
\* finished inserting has put exactly one Bond and right after it exactly one
\* InterestRate, and after the join barrier there are N of each.
C15_Alternation ==
    /\ \A j \in 1..Len(marketDataList) :
          /\ marketDataList[j].kind = (IF j % 2 = 1 THEN "Bond" ELSE "InterestRate")
          /\ j % 2 = 0 => marketDataList[j].id[1] = marketDataList[j - 1].id[1]
    /\ \A w \in Workers :
          wpc[w] \in {"unlock", "done"} =>
              \E j \in 1..(Len(marketDataList) - 1) :
                  /\ PositionsOf(w) = {j, j + 1}
                  /\ marketDataList[j].kind = "Bond"
                  /\ marketDataList[j + 1].kind = "InterestRate"
    /\ AfterJoin => CountKind("Bond") = NumWorkers /\ CountKind("InterestRate") = NumWorkers

C15_Witness ==
    /\ dpc = "processAll"
    /\ CountKind("Bond") = 5
    /\ CountKind("InterestRate") = 5
    /\ marketDataList[1].id[1] # 1

\* The number of places that hold the object id: worker locals and list slots.
Holders(id) ==
    Cardinality({w \in Workers : bondData[w] # Null /\ bondData[w].id = id})
        + Cardinality({w \in Workers : interestRateData[w] # Null /\ interestRateData[w].id = id})
        + Cardinality({j \in 1..Len(marketDataList) : marketDataList[j].id = id})

\* The number of list slots that hold the object id.
Slots(id) == Cardinality({j \in 1..Len(marketDataList) : marketDataList[j].id = id})

\* C16: an object exists from the step that creates it, and is then in
\* exactly one place: in its worker's local pointer until the addData that
\* moves it, and in exactly one slot of the list from then on; after the
\* join barrier every created object is in the list exactly once.
C16_Ownership ==
    \A w \in Workers :
        /\ Holders(<<w, "Bond">>) = (IF wpc[w] \in {"unstarted", "start"} THEN 0 ELSE 1)
        /\ Holders(<<w, "InterestRate">>) = (IF wpc[w] \in {"unstarted", "start"} THEN 0 ELSE 1)
        /\ Slots(<<w, "Bond">>) = (IF wpc[w] \in {"addRate", "unlock", "done"} THEN 1 ELSE 0)
        /\ Slots(<<w, "InterestRate">>) = (IF wpc[w] \in {"unlock", "done"} THEN 1 ELSE 0)
        /\ wpc[w] = "done" => bondData[w] = Null /\ interestRateData[w] = Null

C16_Witness ==
    \E w \in Workers, v \in Workers :
        /\ wpc[w] = "addRate"
        /\ bondData[w] = Null
        /\ interestRateData[w] # Null
        /\ Slots(<<w, "Bond">>) = 1
        /\ wpc[v] = "done"
        /\ Slots(<<v, "InterestRate">>) = 1

\* The number of insertions made so far by the worker that owns the mutex.
HolderInsertions ==
    IF mtx = 0 THEN 0
    ELSE CASE wpc[mtx] = "addRate" -> 1
           [] wpc[mtx] = "unlock" -> 2
           [] OTHER -> 0

\* C18: the length of the list is twice the number of workers that have
\* released the mutex plus the number of insertions of the worker that owns
\* it; it is even when the mutex is free and never above 2*N.
C18_SizeInvariant ==
    /\ Len(marketDataList) =
          2 * Cardinality({w \in Workers : wpc[w] = "done"}) + HolderInsertions
    /\ mtx = 0 => Len(marketDataList) % 2 = 0
    /\ Len(marketDataList) <= 2 * NumWorkers

C18_Witness ==
    /\ mtx # 0
    /\ wpc[mtx] = "addRate"
    /\ Len(marketDataList) = 5
    /\ Cardinality({w \in Workers : wpc[w] = "done"}) = 2

\* C19: under weak fairness of every thread, a worker that waits for the
\* mutex eventually owns it; the worker that owns the mutex can always take
\* its next step, which leads it to the release; and the mutex is free
\* whenever all workers have finished.
C19_NoStarvation ==
    /\ \A w \in Workers : (wpc[w] = "lock") ~> (mtx = w)
    /\ [](\A w \in Workers : mtx = w => ENABLED WorkerNext(w))
    /\ []((\A w \in Workers : wpc[w] = "done") => mtx = 0)

C19_Witness ==
    \E w \in Workers :
        /\ wpc[w] = "addBond"
        /\ mtx = w
        /\ Len(acquired) = NumWorkers
        /\ acquired[NumWorkers] = w
        /\ w # NumWorkers
        /\ dpc = "join"

\* C17: no order between workers is excluded. Whatever order the scheduler
\* grants the mutex in (any of the N! permutations), the run is a run of the
\* program (each of its steps is a step of Next) and ends with the workers'
\* pairs in the list in exactly that order; so every permutation is the
\* final order of some execution.
C17_AnyOrder ==
    /\ [][Next]_vars
    /\ <>(/\ dpc = "done"
          /\ Len(marketDataList) = 2 * NumWorkers
          /\ \A k \in 1..NumWorkers : PositionsOf(schedule[k]) = {2 * k - 1, 2 * k})

\* A worker has completed its insertions while the driver is still spawning,
\* and the first pair of the list is not the first spawned worker's.
C17_Witness ==
    /\ dpc = "spawn"
    /\ i < n
    /\ i >= 2
    /\ wpc[2] = "done"
    /\ PositionsOf(2) = {1, 2}
    /\ wpc[1] # "done"

====
